---- MODULE Spec2Model ----
(***************************************************************************)
(* Model of abalon/spark/pivoter.py: BasicSparkPivoter and AggSparkPivoter.*)
(*                                                                         *)
(* Python values are represented as follows.                               *)
(*   str          a sequence of one-character TLA+ strings, "xy" = <<"x",  *)
(*                "y">>, so that row[0] and the ordering used by sorted()  *)
(*                can be computed;                                         *)
(*   float        an integer standing for the numeric value;               *)
(*   None | v     <<>> for None and <<v>> for the value v;                 *)
(*   dict         a function whose DOMAIN is the dict's key set;           *)
(*   RDD          a bag of elements (an RDD has no order).                 *)
(***************************************************************************)
EXTENDS Integers, Sequences, FiniteSets, Bags, TLC

VARIABLES cls, call, agg_op, columns, df, arg_idx_col, arg_all_vars,
          pc, err, all_vars, idx_col, scanned, todo, parts, fields, out

vars == <<cls, call, agg_op, columns, df, arg_idx_col, arg_all_vars,
          pc, err, all_vars, idx_col, scanned, todo, parts, fields, out>>

(* ------------------------------ bounds -------------------------------- *)

\* largest number of records of the input dataframe
MaxRecs == 3
\* longest explicitly supplied all_vars list
MaxVars == 2

Indexes == {<<"a">>, <<"b">>}
Keys == {<<"x">>, <<"y">>, <<"x", "y">>}
Values == {-1, 2}
\* the keys an explicitly supplied all_vars list is made of
ListKeys == {<<"y">>, <<"x", "y">>}
AggOps == {"add", "min", "max", "mul"}

None == <<>>
Some(v) == <<v>>

\* code points of the characters the keys are made of
ord == [c \in {"x", "y"} |-> IF c = "x" THEN 120 ELSE 121]

\* the column names a dataframe of n columns has
ColumnNames == << <<"i">>, <<"k">>, <<"v">>, <<"w">> >>

\* the rows a dataframe of n columns can hold
RowsOf(n) ==
    CASE n = 1 -> {<<i>> : i \in Indexes}
      [] n = 2 -> {<<i, <<"x">> >> : i \in Indexes}
      [] n = 3 -> {<<i, k, v>> : i \in Indexes, k \in Keys, v \in Values}
      [] OTHER -> {<<i, <<"x">>, 2, 2>> : i \in Indexes}

RECURSIVE BagsUpTo(_, _)
BagsUpTo(R, n) ==
    IF n = 0 THEN {EmptyBag}
    ELSE LET B == BagsUpTo(R, n - 1)
         IN  B \cup {b (+) SetToBag({r}) : b \in B, r \in R}

SeqsUpTo(S, n) == UNION {[1..m -> S] : m \in 0..n}

(* --------------------------- pure functions --------------------------- *)

\* truth value of `not v` for v None, a str or a list
Not(v) == v = None \/ v[1] = <<>>

\* s < t for two str, as Python compares them
RECURSIVE StrLess(_, _)
StrLess(s, t) ==
    IF s = <<>> THEN t # <<>>
    ELSE IF t = <<>> THEN FALSE
    ELSE IF s[1] = t[1] THEN StrLess(Tail(s), Tail(t))
    ELSE ord[s[1]] < ord[t[1]]

RECURSIVE Insert(_, _)
Insert(x, s) ==
    IF s = <<>> THEN <<x>>
    ELSE IF StrLess(x, s[1]) THEN <<x>> \o s
    ELSE <<s[1]>> \o Insert(x, Tail(s))

\* sorted(list) for a list of str
RECURSIVE sorted(_)
sorted(list) ==
    IF list = <<>> THEN <<>> ELSE Insert(list[1], sorted(Tail(list)))

\* rdd.collect() of a set of elements, in the order the engine delivers them
RECURSIVE collect(_)
collect(S) ==
    IF S = {} THEN <<>>
    ELSE LET x == CHOOSE x \in S : TRUE IN <<x>> \o collect(S \ {x})

\* a lambda that takes the first three fields of a longer row
UnpacksPrefix(row) == Len(row) >= 3

\* lambda (idx, k, v): ...   succeeds on a row of exactly three fields
Unpacks(row) == Len(row) = 3

\* df.rdd.map(lambda (idx, k, v): k).distinct()
distinct_keys(rdd) == {row[2] : row \in BagToSet(rdd)}

\* sorted([row[0] for row in <distinct keys>.collect()])
scan_all_vars(rdd) ==
    LET ks == collect(distinct_keys(rdd))
    IN  sorted([i \in 1..Len(ks) |-> <<ks[i][1]>>])

\* float(v) of a numeric v keeps its numeric value
float(v) == v

\* self.agg_op(a, b)
Apply(op, a, b) ==
    CASE op = "add" -> a + b
      [] op = "min" -> IF a < b THEN a ELSE b
      [] op = "max" -> IF a > b THEN a ELSE b
      [] OTHER      -> a * b

\* d.get(k, default)
get(d, k, default) == IF k \in DOMAIN d THEN d[k] ELSE default

\* a merge that returns the updating dict alone
BasicMergeLost(x, y) == y

\* a merge that adds the two values of a key both dicts hold
BasicMergeAdding(x, y) ==
    [k \in DOMAIN x \cup DOMAIN y |->
        IF k \in DOMAIN x /\ k \in DOMAIN y THEN x[k] + y[k]
        ELSE IF k \in DOMAIN y THEN y[k] ELSE x[k]]

\* BasicSparkPivoter.merge_two_dicts: x.update(y); return x
BasicMerge(x, y) ==
    [k \in DOMAIN x \cup DOMAIN y |-> IF k \in DOMAIN y THEN y[k] ELSE x[k]]

\* AggSparkPivoter.merge_two_dicts
AggMerge(op, x, y) ==
    [k \in DOMAIN x \cup DOMAIN y |-> Apply(op, get(x, k, 0), get(y, k, 0))]

\* self.merge_two_dicts(x, y), dispatched on the class of self
merge_two_dicts(c, op, x, y) ==
    IF c = "AggSparkPivoter" THEN AggMerge(op, x, y) ELSE BasicMerge(x, y)

\* a densification without the else branch: absent keys yield nothing
map_dict_sparse(vs, idx, d) ==
    <<idx>> \o [i \in 1..Len(SelectSeq(vs, LAMBDA k : k \in DOMAIN d)) |->
                   Some(float(d[SelectSeq(vs, LAMBDA k : k \in DOMAIN d)[i]]))]

\* list(self.map_dict_to_denseArray(idx, d))
map_dict_to_denseArray(vs, idx, d) ==
    <<idx>> \o [i \in 1..Len(vs) |->
                   IF vs[i] \in DOMAIN d THEN Some(float(d[vs[i]])) ELSE None]

StructField(name, type, nullable) ==
    [name |-> name, type |-> type, nullable |-> nullable]

\* a map that pairs each record under its key column
to_pair_by_key(row) == [idx |-> row[2], d |-> [k \in {row[1]} |-> row[3]]]

\* lambda (idx, k, v): (idx, {k: v})
to_pair(row) == [idx |-> row[1], d |-> [k \in {row[2]} |-> row[3]]]

\* a resolution that sorts the list the caller supplied
resolve_sorted(arg, rdd) ==
    IF Not(arg) THEN scan_all_vars(rdd) ELSE sorted(arg[1])

\* all_vars as pivot_df resolves it: scanned `if not all_vars`
resolve_all_vars(arg, rdd) ==
    IF Not(arg) THEN scan_all_vars(rdd) ELSE arg[1]

\* fields = [StructField(idx_col, ...)] + [StructField(n, ...) for n in all_vars]
schema_fields(ic, vs) ==
    <<StructField(ic, "string", FALSE)>> \o
    [i \in 1..Len(vs) |-> StructField(vs[i], "double", TRUE)]

(* ------------------------------- state -------------------------------- *)

Init ==
    /\ columns \in {SubSeq(ColumnNames, 1, n) : n \in 1..4}
    /\ df \in BagsUpTo(RowsOf(Len(columns)), MaxRecs)
    /\ \/ cls = "BasicSparkPivoter" /\ call = "new" /\ agg_op = "add"
       \/ cls = "AggSparkPivoter" /\ call \in {"new", "pivot_df"}
          /\ agg_op \in AggOps
    /\ arg_idx_col \in {None, Some(<<"i", "d">>)}
    /\ arg_all_vars \in {None} \cup {Some(l) : l \in SeqsUpTo(ListKeys, MaxVars)}
    /\ pc = call
    /\ err = None
    /\ all_vars = <<>>
    /\ idx_col = None
    /\ scanned = FALSE
    /\ todo = EmptyBag
    /\ parts = EmptyBag
    /\ fields = <<>>
    /\ out = EmptyBag

Raise(e) ==
    /\ pc' = "error"
    /\ err' = Some(e)

\* BasicSparkPivoter.__new__ : creates the instance and calls pivot_df
BasicNew ==
    /\ pc = "new"
    /\ cls = "BasicSparkPivoter"
    /\ pc' = "pivot_df"
    /\ UNCHANGED <<cls, call, agg_op, columns, df, arg_idx_col, arg_all_vars,
                   err, all_vars, idx_col, scanned, todo, parts, fields, out>>

\* AggSparkPivoter.__new__ : its parameter list has no cls, and its first
\* statement reads the name cls
AggNew ==
    /\ pc = "new"
    /\ cls = "AggSparkPivoter"
    /\ Raise("NameError")
    /\ UNCHANGED <<cls, call, agg_op, columns, df, arg_idx_col, arg_all_vars,
                   all_vars, idx_col, scanned, todo, parts, fields, out>>

\* pivot_df up to the schema: all_vars, idx_col, the (lazy) rdd pipeline and
\* the schema fields
pivot_df ==
    /\ pc = "pivot_df"
    /\ LET scan == Not(arg_all_vars)
           vs   == resolve_all_vars(arg_all_vars, df)
           ic   == IF Not(arg_idx_col) THEN columns[2] ELSE arg_idx_col[1]
       IN  /\ scanned' = scan
           /\ IF scan /\ \E row \in BagToSet(df) : ~Unpacks(row)
              THEN /\ Raise("ValueError")
                   /\ UNCHANGED <<all_vars, idx_col, todo, fields>>
              ELSE IF Not(arg_idx_col) /\ Len(columns) < 2
              THEN /\ Raise("IndexError")
                   /\ all_vars' = vs
                   /\ UNCHANGED <<idx_col, todo, fields>>
              ELSE /\ all_vars' = vs
                   /\ idx_col' = Some(ic)
                   /\ todo' = df
                   /\ fields' = schema_fields(ic, vs)
                   /\ pc' = "reduce"
                   /\ UNCHANGED err
    /\ UNCHANGED <<cls, call, agg_op, columns, df, arg_idx_col, arg_all_vars,
                   parts, out>>

\* .map(lambda (idx, k, v): (idx, {k: v})) applied to one record
MapRow(row) ==
    /\ pc = "reduce"
    /\ BagIn(row, todo)
    /\ IF Unpacks(row)
       THEN /\ todo' = todo (-) SetToBag({row})
            /\ parts' = parts (+) SetToBag({to_pair(row)})
            /\ UNCHANGED <<pc, err>>
       ELSE /\ Raise("ValueError")
            /\ UNCHANGED <<todo, parts>>
    /\ UNCHANGED <<cls, call, agg_op, columns, df, arg_idx_col, arg_all_vars,
                   all_vars, idx_col, scanned, fields, out>>

\* .reduceByKey(self.merge_two_dicts) : one call merge_two_dicts(x.d, y.d) on
\* two accumulators of the same index, in the order and tree shape the engine
\* chooses
Merge(x, y) ==
    /\ pc = "reduce"
    /\ BagIn(x, parts) /\ BagIn(y, parts)
    /\ x.idx = y.idx
    /\ x = y => CopiesIn(x, parts) >= 2
    /\ parts' = ((parts (-) SetToBag({x})) (-) SetToBag({y})) (+)
                SetToBag({[idx |-> x.idx,
                           d |-> merge_two_dicts(cls, agg_op, x.d, y.d)]})
    /\ UNCHANGED <<cls, call, agg_op, columns, df, arg_idx_col, arg_all_vars,
                   pc, err, all_vars, idx_col, scanned, todo, fields, out>>

\* every record is mapped and every index has one accumulator
Reduced ==
    /\ todo = EmptyBag
    /\ \A p \in BagToSet(parts) :
          /\ CopiesIn(p, parts) = 1
          /\ \A q \in BagToSet(parts) : q.idx = p.idx => q = p

\* .map(lambda (idx, d): list(self.map_dict_to_denseArray(idx, d))) over the
\* reduced rdd: one row per accumulator
Densify ==
    /\ pc = "reduce"
    /\ Reduced
    /\ LET row(p) == map_dict_to_denseArray(all_vars, p.idx, p.d)
       IN  out' = BagOfAll(row, parts)
    /\ pc' = "densified"
    /\ UNCHANGED <<cls, call, agg_op, columns, df, arg_idx_col, arg_all_vars,
                   err, all_vars, idx_col, scanned, todo, parts, fields>>

\* spark.createDataFrame(pivoted_rdd, schema)
createDataFrame ==
    /\ pc = "densified"
    /\ pc' = "done"
    /\ UNCHANGED <<cls, call, agg_op, columns, df, arg_idx_col, arg_all_vars,
                   err, all_vars, idx_col, scanned, todo, parts, fields, out>>

Next ==
    \/ BasicNew
    \/ AggNew
    \/ pivot_df
    \/ \E row \in BagToSet(todo) : MapRow(row)
    \/ \E x \in BagToSet(parts) : \E y \in BagToSet(parts) : Merge(x, y)
    \/ Densify
    \/ createDataFrame

Spec == Init /\ [][Next]_vars

(* ---------------------- what the input determines --------------------- *)

WellFormed == Len(columns) = 3

Running == pc \in {"reduce", "densified", "done"}

IndexesOf == {row[1] : row \in BagToSet(df)}

KeysOf(i) == {row[2] : row \in {r \in BagToSet(df) : r[1] = i}}

\* the records of df that carry the pair (i, k), as a bag
PairBag(i, k) ==
    LET R == {r \in BagToSet(df) : r[1] = i /\ r[2] = k}
    IN  [r \in R |-> df[r]]

ValuesOf(i, k) == {r[3] : r \in DOMAIN PairBag(i, k)}

\* the fold under op of the values of a non-empty bag of records
RECURSIVE Fold(_, _)
Fold(op, b) ==
    LET r    == CHOOSE r \in DOMAIN b : TRUE
        rest == b (-) SetToBag({r})
    IN  IF rest = EmptyBag THEN r[3] ELSE Apply(op, r[3], Fold(op, rest))

\* the accumulator reduceByKey holds for index i once the reduction is over
Acc(i) == (CHOOSE p \in BagToSet(parts) : p.idx = i).d

Range(s) == {s[i] : i \in 1..Len(s)}

StrictlySorted(s) == \A i \in 1..Len(s) - 1 : StrLess(s[i], s[i + 1])

\* no two records share an (index, key) pair
Unique ==
    \A r \in BagToSet(df) :
       /\ df[r] = 1
       /\ \A q \in BagToSet(df) : q[1] = r[1] /\ q[2] = r[2] => q = r

\* how many rows of the output carry index i
RowsWith(i) ==
    LET R == {r \in BagToSet(out) : r[1] = i}
    IN  BagCardinality([r \in R |-> out[r]])

\* cell j of an output row is the accumulated value of key vs[j], or null
CellsFrom(r, vs) ==
    \A j \in 1..Len(vs) :
       r[j + 1] = IF vs[j] \in KeysOf(r[1]) THEN Some(Acc(r[1])[vs[j]])
                  ELSE None

(* ------------------------------- claims ------------------------------- *)

\* C1: once the aggregating reduction of an index is over, in whatever order
\* and tree shape the merges ran, the accumulator has exactly the keys of
\* that index and holds for each key the fold under agg_op of the values of
\* the records carrying that (index, key) pair.
C1_AggFold ==
    (cls = "AggSparkPivoter" /\ Running /\ Reduced) =>
       \A p \in BagToSet(parts) :
          /\ DOMAIN p.d = KeysOf(p.idx)
          /\ \A k \in DOMAIN p.d : p.d[k] = Fold(agg_op, PairBag(p.idx, k))

\* C2: when no key list is supplied, the key universe is the set of the
\* distinct keys of the records, without duplicates, in ascending order.
C2_Discovered ==
    (Running /\ arg_all_vars = None) =>
       /\ Range(all_vars) = distinct_keys(df)
       /\ StrictlySorted(all_vars)

\* C3: AggSparkPivoter called on a well-formed relation with the default
\* operator never ends in an error, and every cell of its table is the sum
\* of the values of the records of that index and key.
C3_AggDefault ==
    (cls = "AggSparkPivoter" /\ call = "new" /\ agg_op = "add" /\ WellFormed) =>
       /\ pc # "error"
       /\ pc = "done" =>
             \A r \in BagToSet(out) : \A j \in 1..Len(all_vars) :
                all_vars[j] \in KeysOf(r[1]) =>
                   r[j + 1] = Some(Fold("add", PairBag(r[1], all_vars[j])))

\* C4: the finished pivot has one row per distinct index of the input: as
\* many rows as distinct indexes, and exactly one row for each of them.
C4_RowPerIndex ==
    pc = "done" =>
       /\ BagCardinality(out) = Cardinality(IndexesOf)
       /\ \A r \in BagToSet(out) : r[1] \in IndexesOf
       /\ \A i \in IndexesOf : RowsWith(i) = 1

C4_Witness ==
    /\ pc = "done"
    /\ cls = "AggSparkPivoter"
    /\ Cardinality(IndexesOf) = 2
    /\ BagCardinality(df) = 3

\* C5: a non-empty key list the caller supplies is the key universe, in the
\* caller's order and without a scan; the schema's key columns are that
\* list; cell j of every row is the accumulated value of the j-th listed key
\* when the index has a record with it, and null otherwise.
C5_ExplicitUniverse ==
    (Running /\ ~Not(arg_all_vars)) =>
       LET L == arg_all_vars[1]
       IN  /\ ~scanned
           /\ all_vars = L
           /\ Len(fields) = 1 + Len(L)
           /\ \A j \in 1..Len(L) : fields[j + 1].name = L[j]
           /\ pc = "done" =>
                 \A r \in BagToSet(out) :
                    /\ Len(r) = 1 + Len(L)
                    /\ CellsFrom(r, L)

C5_Witness ==
    /\ pc = "done"
    /\ arg_all_vars = Some(<< <<"y">>, <<"x", "y">> >>)
    /\ KeysOf(<<"a">>) = {<<"x">>, <<"x", "y">>}
    /\ KeysOf(<<"b">>) = {<<"y">>}
    /\ \E r \in BagToSet(out) : r[1] = <<"a">> /\ r[2] = None /\ r[3] # None

\* C6: an explicit empty key list on a relation with records is used as it
\* is: no scan is made and the schema has the index column only.
C6_EmptyListVerbatim ==
    (Running /\ arg_all_vars = Some(<<>>) /\ df # EmptyBag) =>
       /\ ~scanned
       /\ all_vars = <<>>
       /\ Len(fields) = 1

\* C7: every output row has 1 + |key universe| fields, as many as the schema
\* has columns; field 0 is an index of the input and field j is the
\* accumulated value of key j for that index when the index has a record with
\* that key, and null otherwise; without aggregation the value is one of the
\* values the records of that index and key carry.
C7_Dense ==
    pc = "done" =>
       \A r \in BagToSet(out) :
          /\ Len(r) = 1 + Len(all_vars)
          /\ Len(r) = Len(fields)
          /\ r[1] \in IndexesOf
          /\ CellsFrom(r, all_vars)
          /\ cls = "BasicSparkPivoter" =>
                \A j \in 1..Len(all_vars) :
                   r[j + 1] # None => r[j + 1][1] \in ValuesOf(r[1], all_vars[j])

C7_Witness ==
    /\ pc = "done"
    /\ scanned
    /\ Len(all_vars) = 2
    /\ \E r \in BagToSet(out) : r[2] = None /\ r[3] # None
    /\ \E r \in BagToSet(out) : r[2] # None

UniqueMap(i) == [k \in KeysOf(i) |-> CHOOSE v \in ValuesOf(i, k) : TRUE]

\* C9: when no two records share an (index, key) pair, every partial
\* accumulator of the basic merge agrees with the records of its index, the
\* final accumulator of an index maps each of its keys to its single value,
\* and the output is the densification of those maps, whatever the order.
C9_BasicUnique ==
    (cls = "BasicSparkPivoter" /\ WellFormed /\ Unique) =>
       /\ \A p \in BagToSet(parts) :
             \A k \in DOMAIN p.d : k \in KeysOf(p.idx) /\ p.d[k] = UniqueMap(p.idx)[k]
       /\ (Running /\ Reduced) =>
             \A p \in BagToSet(parts) : p.d = UniqueMap(p.idx)
       /\ pc = "done" =>
             out = SetToBag({map_dict_to_denseArray(all_vars, i, UniqueMap(i)) :
                             i \in IndexesOf})

C9_Witness ==
    /\ cls = "BasicSparkPivoter"
    /\ WellFormed
    /\ Unique
    /\ pc = "done"
    /\ BagCardinality(df) = 3
    /\ \E p \in BagToSet(parts) : Cardinality(DOMAIN p.d) = 2

\* C10: the basic merge of x and y has the keys of both, y's value for the
\* keys of y and x's value for the others; so every value of an accumulator,
\* and every cell of the output, is one of the values the records of that
\* index and key carry, even when several records share the pair.
C10_BasicDestructive ==
    cls = "BasicSparkPivoter" =>
       /\ \A x \in BagToSet(parts) : \A y \in BagToSet(parts) :
             LET m == merge_two_dicts(cls, agg_op, x.d, y.d)
             IN  /\ DOMAIN m = DOMAIN x.d \cup DOMAIN y.d
                 /\ \A k \in DOMAIN y.d : m[k] = y.d[k]
                 /\ \A k \in DOMAIN x.d \ DOMAIN y.d : m[k] = x.d[k]
       /\ \A p \in BagToSet(parts) :
             \A k \in DOMAIN p.d : p.d[k] \in ValuesOf(p.idx, k)
       /\ pc = "done" =>
             \A r \in BagToSet(out) : \A j \in 1..Len(all_vars) :
                r[j + 1] # None => r[j + 1][1] \in ValuesOf(r[1], all_vars[j])

\* two accumulators of one index whose merge depends on which is the updater
C10_Witness ==
    /\ cls = "BasicSparkPivoter"
    /\ \E x \in BagToSet(parts) : \E y \in BagToSet(parts) :
          /\ x.idx = y.idx
          /\ merge_two_dicts(cls, agg_op, x.d, y.d) #
             merge_two_dicts(cls, agg_op, y.d, x.d)

====
